---- MODULE Spec2Model ----
(***************************************************************************)
(* tcpcm-transcriber: the text chunker (tcpcm_transcriber/chunk.py) as a   *)
(* state machine.  A caller constructs a TextChunker, calls chunk_segments *)
(* on a list of Segment records, and the sliding-window loop runs one      *)
(* iteration per step until it returns the list of Chunk records.          *)
(*                                                                         *)
(* Text is a sequence of one-character strings; Python's 0-based slice     *)
(* s[a:b] is SubSeq(s, a + 1, b).  The set of Segment objects the loop     *)
(* collects is a TLA+ set of records, so two segments are the same member  *)
(* exactly when all their fields are equal: chunk.py line 84 puts Segment  *)
(* objects in a set, which needs them hashable, and the model takes the    *)
(* value hash that goes with the value equality of schemas.py's records.   *)
(*                                                                         *)
(* Configurations are drawn from the documented domain, target_chars >= 1  *)
(* and overlap_chars >= 0, on both sides of overlap_chars < target_chars.  *)
(***************************************************************************)
EXTENDS Integers, Sequences, FiniteSets, TLC

\* ------------------------------------------------------------------ bounds
MaxSegs == 3        \* most segments in one call
MaxChars == 3       \* most characters of segment text in one call, in total
MaxTarget == 3      \* largest target_chars / overlap_chars tried

\* ------------------------------------------------------------------ inputs
Chars == {"a", " "}
IsSpace(c) == c = " "

Texts == UNION {[1..n -> Chars] : n \in 0..MaxChars}

RECURSIVE TotalLen(_)
TotalLen(txt) ==
    IF txt = <<>> THEN 0 ELSE Len(Head(txt)) + TotalLen(Tail(txt))

TextLists(n) == {txt \in [1..n -> Texts] : TotalLen(txt) <= MaxChars}

\* Segment timing as the engine produces it: by ascending id, start and end
\* non-decreasing and end >= start.  Segment id j starts at 2*j and lasts d:
\* d = 0 an instant, 1 leaves a gap before the next segment, 2 is contiguous,
\* 3 overlaps the next segment.
Durations == {0, 1, 2, 3}
SegStart(id) == 2 * id
SegEnd(id, d) == 2 * id + d

\* The ids 0..n-1 are unique; the list carries them ascending (the engine's
\* order), descending, or rotated by one place.
IdOrders(n) ==
    { [k \in 1..n |-> k - 1],
      [k \in 1..n |-> n - k],
      [k \in 1..n |-> k % n] }

\* schemas.py Segment: {id, start, end, text}
SegmentLists ==
    UNION {
        { [k \in 1..n |->
              [id |-> ids[k], start |-> SegStart(ids[k]),
               end |-> SegEnd(ids[k], d), text |-> txt[k]]] :
            ids \in IdOrders(n), txt \in TextLists(n), d \in Durations }
        : n \in 0..MaxSegs }

SourceFiles == {"None", "test.mp4"}

\* ------------------------------------------------------------ str helpers
Min(a, b) == IF a <= b THEN a ELSE b

\* number of leading whitespace characters of s
RECURSIVE LeadingSpaces(_)
LeadingSpaces(s) ==
    IF s = <<>> \/ ~IsSpace(Head(s)) THEN 0 ELSE 1 + LeadingSpaces(Tail(s))

\* number of trailing whitespace characters of s
RECURSIVE TrailingSpaces(_)
TrailingSpaces(s) ==
    IF s = <<>> \/ ~IsSpace(s[Len(s)]) THEN 0
    ELSE 1 + TrailingSpaces(SubSeq(s, 1, Len(s) - 1))

\* mutant: str.lstrip, the trailing whitespace stays
StripLeadingOnly(s) == SubSeq(s, LeadingSpaces(s) + 1, Len(s))

\* str.strip()
Strip(s) ==
    IF LeadingSpaces(s) = Len(s) THEN <<>>
    ELSE SubSeq(s, LeadingSpaces(s) + 1, Len(s) - TrailingSpaces(s))

\* s[a:b] for 0 <= a, 0 <= b
Slice(s, a, b) == SubSeq(s, a + 1, Min(b, Len(s)))

\* ------------------------------------------------------- chunk_segments
\* lines 57-60: full_text before the strip
RECURSIVE JoinText(_)
JoinText(segs) ==
    IF segs = <<>> THEN <<>>
    ELSE Head(segs).text \o <<" ">> \o JoinText(Tail(segs))

\* mutant: only the characters of seg.text are mapped, not the added space
RECURSIVE CharToSegmentTextOnly(_)
CharToSegmentTextOnly(segs) ==
    IF segs = <<>> THEN <<>>
    ELSE [i \in 1..Len(Head(segs).text) |-> Head(segs)]
         \o CharToSegmentTextOnly(Tail(segs))

\* lines 57-64: one entry per character of seg.text + " ", naming seg
RECURSIVE CharToSegment(_)
CharToSegment(segs) ==
    IF segs = <<>> THEN <<>>
    ELSE [i \in 1..(Len(Head(segs).text) + 1) |-> Head(segs)]
         \o CharToSegment(Tail(segs))

\* line 66
FullText(segs) == Strip(JoinText(segs))

\* mutant: the window is clamped one character short of the text
EndCharOneShort(start, target, text) == Min(start + target, Len(text) - 1)

\* mutant: the window takes one character more than target_chars
EndCharPastTarget(start, target, text) == Min(start + target + 1, Len(text))

\* line 72
EndChar(start, target, text) == Min(start + target, Len(text))

\* mutant: the window's text is kept untrimmed
ChunkTextUntrimmed(text, start, end) == Slice(text, start, end)

\* line 75
ChunkText(text, start, end) == Strip(Slice(text, start, end))

\* lines 81-84: the segments mapped at offsets start .. min(end, len(map)) - 1
WindowSegments(map, start, end) ==
    { map[i + 1] : i \in start..(Min(end, Len(map)) - 1) }

\* mutant: the window advances by overlap_chars
NextStartByOverlap(start, ck) == start + ck.overlap_chars

\* mutant: the window advances by a whole window
NextStartByTarget(start, ck) == start + ck.target_chars

\* mutant: the window advances one offset further than the stride
NextStartSkipsOne(start, ck) == start + ck.stride + 1

\* line 108: start_char += self.stride
NextStart(start, ck) == start + ck.stride

\* mutant: sorted with reverse=True
RECURSIVE SortByIdDescending(_)
SortByIdDescending(S) ==
    IF S = {} THEN <<>>
    ELSE LET first == CHOOSE s \in S : \A t \in S : s.id >= t.id
         IN  <<first>> \o SortByIdDescending(S \ {first})

\* line 86: sorted(chunk_segments, key=lambda s: s.id)
RECURSIVE SortById(_)
SortById(S) ==
    IF S = {} THEN <<>>
    ELSE LET first == CHOOSE s \in S : \A t \in S : s.id <= t.id
         IN  <<first>> \o SortById(S \ {first})

\* mutant: chunk_end read from the first segment
MakeChunkEndOfFirst(cid, text, sorted, sf) ==
    [chunk_id |-> cid,
     text |-> text,
     start |-> sorted[1].start,
     end |-> sorted[1].end,
     segment_ids |-> [k \in 1..Len(sorted) |-> sorted[k].id],
     char_count |-> Len(text),
     source_file |-> sf]

\* mutant: chunk ids count from 1
MakeChunkOneBased(cid, text, sorted, sf) ==
    [chunk_id |-> cid + 1,
     text |-> text,
     start |-> sorted[1].start,
     end |-> sorted[Len(sorted)].end,
     segment_ids |-> [k \in 1..Len(sorted) |-> sorted[k].id],
     char_count |-> Len(text),
     source_file |-> sf]

\* mutant: source_file is not passed on to the Chunk
MakeChunkNoSourceFile(cid, text, sorted, sf) ==
    [chunk_id |-> cid,
     text |-> text,
     start |-> sorted[1].start,
     end |-> sorted[Len(sorted)].end,
     segment_ids |-> [k \in 1..Len(sorted) |-> sorted[k].id],
     char_count |-> Len(text),
     source_file |-> "None"]

\* mutant: chunk_start and chunk_end are read from the wrong ends
MakeChunkSwapped(cid, text, sorted, sf) ==
    [chunk_id |-> cid,
     text |-> text,
     start |-> sorted[Len(sorted)].end,
     end |-> sorted[1].start,
     segment_ids |-> [k \in 1..Len(sorted) |-> sorted[k].id],
     char_count |-> Len(text),
     source_file |-> sf]

\* lines 90-102: the Chunk built from the sorted segments
MakeChunk(cid, text, sorted, sf) ==
    [chunk_id |-> cid,
     text |-> text,
     start |-> sorted[1].start,
     end |-> sorted[Len(sorted)].end,
     segment_ids |-> [k \in 1..Len(sorted) |-> sorted[k].id],
     char_count |-> Len(text),
     source_file |-> sf]

\* ------------------------------------------------------------------ state
VARIABLES
    pc,               \* "new", "rejected", "ready", "while", "done"
    config,           \* the arguments TextChunker(...) was called with
    error,            \* "none" or the exception raised
    chunker,          \* the TextChunker's fields, or NoChunker
    segments,         \* chunk_segments' argument
    source_file,      \* chunk_segments' argument
    full_text,        \* local: the stripped concatenated text
    char_to_segment,  \* local: offset -> segment
    start_char,       \* local: the window's start offset
    chunk_id,         \* local: next chunk id
    chunks,           \* local, then the returned list
    windows,          \* history: [start_char, end_char) of each emitted chunk
    calls,            \* concurrent use: each caller's chunk_segments frame
    normalizer,       \* the TextNormalizer's fields, or NoNormalizer
    norm,             \* normalize: its argument, locals and returned text
    glossary_file,    \* history: what TextNormalizer found at glossary_path
    stamp,            \* format_timestamp_srt/_vtt: the argument and the results
    run               \* the batch command: files, position, console, exit

\* the text normalizer's state
normvars == <<normalizer, norm, glossary_file>>

\* the state outside the single-caller chunker
others == <<calls, normvars, stamp, run>>

vars == <<pc, config, error, chunker, segments, source_file, full_text,
          char_to_segment, start_char, chunk_id, chunks, windows, others>>

\* the callers that share one chunker
Frames == {1, 2}

\* a caller that has not called chunk_segments yet
IdleFrame ==
    [pc |-> "idle", segments |-> <<>>, source_file |-> "None",
     full_text |-> <<>>, char_to_segment |-> <<>>, start_char |-> 0,
     chunk_id |-> 0, chunks |-> <<>>]

\* no compiled pattern (None)
NoPattern == [alternatives |-> <<>>, flags |-> "none"]

\* the batch command not invoked yet
NoRun ==
    [pc |-> "idle", files |-> <<>>, i |-> 1, started |-> <<>>,
     console |-> <<>>, exit_status |-> 0]

\* no timestamp formatted yet
NoStamp == [pc |-> "idle", millis |-> 0, srt |-> <<>>, vtt |-> <<>>]

\* no glossary_path looked at yet
NoFile == [kind |-> "none", content |-> <<>>]

\* no TextNormalizer constructed yet
NoNormalizer ==
    [glossary |-> <<>>, remove_fillers |-> FALSE,
     glossary_pattern |-> NoPattern, filler_pattern |-> NoPattern]

\* normalize not called yet
IdleNorm ==
    [pc |-> "new", text |-> <<>>, glossed |-> <<>>, glossary_matches |-> <<>>,
     filler_matches |-> <<>>, result |-> <<>>, again |-> <<>>]

NoChunker == [target_chars |-> 0, overlap_chars |-> 0, stride |-> 0]
NoConfig == [target_chars |-> 0, overlap_chars |-> 0]

Init ==
    /\ pc = "new"
    /\ config = NoConfig
    /\ error = "none"
    /\ chunker = NoChunker
    /\ segments = <<>>
    /\ source_file = "None"
    /\ full_text = <<>>
    /\ char_to_segment = <<>>
    /\ start_char = 0
    /\ chunk_id = 0
    /\ chunks = <<>>
    /\ windows = <<>>
    /\ calls = [f \in Frames |-> IdleFrame]
    /\ normalizer = NoNormalizer
    /\ norm = IdleNorm
    /\ glossary_file = NoFile
    /\ stamp = NoStamp
    /\ run = NoRun

\* mutant: the stride forgets the overlap
NewChunkerStrideIsTarget(target, overlap) ==
    [target_chars |-> target, overlap_chars |-> overlap, stride |-> target]

\* TextChunker.__init__, lines 28-30
NewChunker(target, overlap) ==
    [target_chars |-> target, overlap_chars |-> overlap,
     stride |-> target - overlap]

\* mutant: the boundary overlap_chars = target_chars is let through
RejectsOnlyLarger(target, overlap) == overlap > target

\* line 25
Rejects(target, overlap) == overlap >= target

Construct(target, overlap) ==
    /\ pc = "new"
    /\ config' = [target_chars |-> target, overlap_chars |-> overlap]
    /\ IF Rejects(target, overlap)
       THEN /\ pc' = "rejected"
            /\ error' = "ValueError"
            /\ UNCHANGED chunker
       ELSE /\ pc' = "ready"
            /\ chunker' = NewChunker(target, overlap)
            /\ UNCHANGED error
    /\ UNCHANGED <<segments, source_file, full_text, char_to_segment,
                   start_char, chunk_id, chunks, windows, others>>

\* mutant: an empty segment list is reported as an error
EnterRaisesOnEmpty(segs, sf) ==
    /\ segments' = segs
    /\ source_file' = sf
    /\ chunks' = <<>>
    /\ windows' = <<>>
    /\ chunk_id' = 0
    /\ start_char' = 0
    /\ IF segs = <<>>
       THEN /\ pc' = "rejected"
            /\ UNCHANGED <<full_text, char_to_segment>>
       ELSE /\ pc' = "while"
            /\ full_text' = FullText(segs)
            /\ char_to_segment' = CharToSegment(segs)

\* chunk_segments, lines 47-69: up to the first test of the while loop
Enter(segs, sf) ==
    /\ segments' = segs
    /\ source_file' = sf
    /\ chunks' = <<>>
    /\ windows' = <<>>
    /\ chunk_id' = 0
    /\ start_char' = 0
    /\ IF segs = <<>>
       THEN /\ pc' = "done"
            /\ UNCHANGED <<full_text, char_to_segment>>
       ELSE /\ pc' = "while"
            /\ full_text' = FullText(segs)
            /\ char_to_segment' = CharToSegment(segs)

ChunkSegments(segs, sf) ==
    /\ pc = "ready"
    /\ Enter(segs, sf)
    /\ UNCHANGED <<config, error, chunker, others>>

\* chunk_segments, lines 71-115: one test of the loop condition and, when it
\* holds, one iteration; leaving the loop returns the chunks.
WhileStep ==
    /\ pc = "while"
    /\ IF ~(start_char < Len(full_text))
       THEN /\ pc' = "done"
            /\ UNCHANGED <<start_char, chunk_id, chunks, windows>>
       ELSE LET end_char == EndChar(start_char, chunker.target_chars, full_text)
                chunk_text == ChunkText(full_text, start_char, end_char)
                sorted == SortById(WindowSegments(char_to_segment,
                                                  start_char, end_char))
            IN  IF chunk_text = <<>>
                THEN /\ pc' = "done"
                     /\ UNCHANGED <<start_char, chunk_id, chunks, windows>>
                ELSE /\ IF sorted # <<>>
                        THEN /\ chunks' = Append(chunks,
                                    MakeChunk(chunk_id, chunk_text, sorted,
                                              source_file))
                             /\ windows' = Append(windows,
                                    [start_char |-> start_char,
                                     end_char |-> end_char])
                             /\ chunk_id' = chunk_id + 1
                        ELSE UNCHANGED <<chunks, windows, chunk_id>>
                     /\ start_char' = NextStart(start_char, chunker)
                     /\ pc' = IF end_char >= Len(full_text)
                              THEN "done" ELSE "while"
    /\ UNCHANGED <<config, error, chunker, segments, source_file, full_text,
                   char_to_segment, others>>

\* chunk_transcript, lines 136-137: construct, then chunk_segments
ChunkTranscript(segs, target, overlap, sf) ==
    /\ pc = "new"
    /\ config' = [target_chars |-> target, overlap_chars |-> overlap]
    /\ IF Rejects(target, overlap)
       THEN /\ pc' = "rejected"
            /\ error' = "ValueError"
            /\ UNCHANGED <<chunker, segments, source_file, full_text,
                           char_to_segment, start_char, chunk_id, chunks,
                           windows>>
       ELSE /\ chunker' = NewChunker(target, overlap)
            /\ Enter(segs, sf)
            /\ UNCHANGED error
    /\ UNCHANGED others

Targets == 1..MaxTarget
Overlaps == 0..MaxTarget

Next ==
    \/ /\ pc = "new"
       /\ \E t \in Targets, o \in Overlaps : Construct(t, o)
    \/ /\ pc = "ready"
       /\ \E segs \in SegmentLists, sf \in SourceFiles :
             ChunkSegments(segs, sf)
    \/ WhileStep
    \/ /\ pc = "new"
       /\ \E segs \in SegmentLists, t \in Targets, o \in Overlaps,
             sf \in SourceFiles : ChunkTranscript(segs, t, o, sf)

Spec == Init /\ [][Next]_vars

\* ------------------------------------------- one chunker, several callers
\* chunk_segments, lines 47-69, on a caller's own locals
EnterFrame(segs, sf) ==
    IF segs = <<>>
    THEN [IdleFrame EXCEPT !.pc = "done", !.source_file = sf]
    ELSE [pc |-> "while", segments |-> segs, source_file |-> sf,
          full_text |-> FullText(segs),
          char_to_segment |-> CharToSegment(segs),
          start_char |-> 0, chunk_id |-> 0, chunks |-> <<>>]

\* chunk_segments, lines 71-115: one test of the loop condition and one
\* iteration, on a caller's own locals, reading the chunker ck
StepFrame(fr, ck) ==
    IF ~(fr.start_char < Len(fr.full_text))
    THEN [fr EXCEPT !.pc = "done"]
    ELSE LET end_char == EndChar(fr.start_char, ck.target_chars, fr.full_text)
             chunk_text == ChunkText(fr.full_text, fr.start_char, end_char)
             sorted == SortById(WindowSegments(fr.char_to_segment,
                                               fr.start_char, end_char))
         IN  IF chunk_text = <<>>
             THEN [fr EXCEPT !.pc = "done"]
             ELSE [fr EXCEPT
                     !.chunks = IF sorted # <<>>
                                THEN Append(fr.chunks,
                                         MakeChunk(fr.chunk_id, chunk_text,
                                                   sorted, fr.source_file))
                                ELSE fr.chunks,
                     !.chunk_id = IF sorted # <<>>
                                  THEN fr.chunk_id + 1 ELSE fr.chunk_id,
                     !.start_char = NextStart(fr.start_char, ck),
                     !.pc = IF end_char >= Len(fr.full_text)
                            THEN "done" ELSE "while"]

\* what one caller may pass while another call is in flight: the engine's
\* output for at most one segment
SharedCallInputs ==
    {segs \in SegmentLists :
        Len(segs) <= 1 /\ \A k \in 1..Len(segs) : segs[k].end = segs[k].start + 1}

\* caller f calls chunk_segments on the shared chunker
CallStart(f, segs) ==
    /\ pc = "ready"
    /\ calls[f].pc = "idle"
    /\ calls' = [calls EXCEPT ![f] = EnterFrame(segs, "None")]
    /\ UNCHANGED <<pc, config, error, chunker, segments, source_file,
                   full_text, char_to_segment, start_char, chunk_id, chunks,
                   windows, normvars, stamp, run>>

\* mutant: the window offset is kept on the chunker, so every caller's loop
\* reads and writes the same start_char
CallStepSharedOffset(f) ==
    /\ pc = "ready"
    /\ calls[f].pc = "while"
    /\ LET new == StepFrame(calls[f], chunker)
       IN  calls' = [g \in Frames |->
                       IF g = f THEN new
                       ELSE [calls[g] EXCEPT !.start_char = new.start_char]]
    /\ UNCHANGED <<pc, config, error, chunker, segments, source_file,
                   full_text, char_to_segment, start_char, chunk_id, chunks,
                   windows, normvars, stamp, run>>

\* caller f's loop takes one step; it reads the chunker and writes only its
\* own locals
CallStep(f) ==
    /\ pc = "ready"
    /\ calls[f].pc = "while"
    /\ calls' = [calls EXCEPT ![f] = StepFrame(calls[f], chunker)]
    /\ UNCHANGED <<pc, config, error, chunker, segments, source_file,
                   full_text, char_to_segment, start_char, chunk_id, chunks,
                   windows, normvars, stamp, run>>

SharedNext ==
    \/ /\ pc = "new"
       /\ \E t \in Targets, o \in Overlaps : Construct(t, o)
    \/ \E f \in Frames : \E segs \in SharedCallInputs : CallStart(f, segs)
    \/ \E f \in Frames : CallStep(f)

SharedSpec == Init /\ [][SharedNext]_vars

\* -------------------------------------------------------- normalize.py
\* A string is the sequence of its characters.

\* FILLER_WORDS, in the order of the list
FILLER_WORDS ==
    << <<"u", "m">>,
       <<"u", "h">>,
       <<"h", "m", "m">>,
       <<"m", "h", "m">>,
       <<"u", "h", "-", "h", "u", "h">>,
       <<"m", "m", "-", "h", "m", "m">>,
       <<"l", "i", "k", "e">>,
       <<"y", "o", "u", " ", "k", "n", "o", "w">>,
       <<"i", " ", "m", "e", "a", "n">>,
       <<"s", "o", "r", "t", " ", "o", "f">>,
       <<"k", "i", "n", "d", " ", "o", "f">> >>

\* the words a text is made of: the test glossary's terms in several
\* spellings and a term that ends in punctuation, and a run of white space
GlossaryWords ==
    { <<"t", "c">>, <<"p", "c", "m">>, <<"T", "C", "P", "C", "M">>, <<"c", "+", "+">>, <<" ">> }

\* spoken words: fillers and the words that filler phrases are made of
SpokenWords ==
    { <<"U", "m">>,
      <<"u", "h">>,
      <<"h", "u", "h">>,
      <<"y", "o", "u">>,
      <<"k", "n", "o", "w">> }

\* what stands between two words
Separators == { <<" ">>, <<"-">> }

\* the number of words of a text
MaxWords == 3

RECURSIVE TextsOf(_, _)
TextsOf(words, n) ==
    IF n = 1 THEN words
    ELSE {t \o s \o w : t \in TextsOf(words, n - 1), s \in Separators, w \in words}

\* normalize's argument
NormTexts ==
    {<<>>} \cup UNION {TextsOf(GlossaryWords, n) \cup TextsOf(SpokenWords, n) :
                        n \in 1..MaxWords}

\* the glossary files' contents: key -> value in the file's order
Glossaries ==
    LET tcpcm  == [key |-> <<"t", "c", "p", "c", "m">>, value |-> <<"T", "c", "P", "C", "M">>]
        tc_pcm == [key |-> <<"t", "c", " ", "p", "c", "m">>, value |-> <<"T", "c", "P", "C", "M">>]
        tc     == [key |-> <<"t", "c">>, value |-> <<"T", "C">>]
        cpp    == [key |-> <<"c", "+", "+">>, value |-> <<"C", "+", "+">>]
    IN  { <<>>, <<tc_pcm, tcpcm>>, <<tc, tc_pcm>>, <<tc_pcm, tc>>, <<cpp>> }

\* glossary_path: a path with no file, a file that cannot be read, a file
\* that is not JSON, a JSON array, or a JSON object with a glossary in it
GlossaryFiles ==
    {[kind |-> k, content |-> <<>>] :
        k \in {"missing", "unreadable", "unparseable", "array"}}
        \cup {[kind |-> "object", content |-> g] : g \in Glossaries}

\* \w is every character but these
NonWordChars == {" ", "-", "+"}
IsWordChar(c) == c \notin NonWordChars

\* str.lower, one character
Lower(c) ==
    CASE c = "T" -> "t"
      [] c = "C" -> "c"
      [] c = "P" -> "p"
      [] c = "M" -> "m"
      [] c = "U" -> "u"
      [] OTHER -> c

LowerStr(s) == [i \in 1..Len(s) |-> Lower(s[i])]

\* mutant: the handler of the other exceptions logs and returns nothing
LoadGlossaryReturnsNone(file) ==
    CASE file.kind = "missing" -> [dict |-> TRUE, entries |-> <<>>]
      [] file.kind \in {"unreadable", "unparseable"} ->
             [dict |-> FALSE, entries |-> <<>>]
      [] file.kind = "array" -> [dict |-> FALSE, entries |-> <<>>]
      [] OTHER -> [dict |-> TRUE, entries |-> file.content]

\* _load_glossary: what json.load returned, or {} after FileNotFoundError
\* (line 56) or any other exception (line 59); dict tells whether the value
\* is a dict
LoadGlossary(file) ==
    CASE file.kind = "missing" -> [dict |-> TRUE, entries |-> <<>>]
      [] file.kind \in {"unreadable", "unparseable"} ->
             [dict |-> TRUE, entries |-> <<>>]
      [] file.kind = "array" -> [dict |-> FALSE, entries |-> <<>>]
      [] OTHER -> [dict |-> TRUE, entries |-> file.content]

Keys(glossary) == [i \in 1..Len(glossary) |-> glossary[i].key]

RemoveAt(s, i) == SubSeq(s, 1, i - 1) \o SubSeq(s, i + 1, Len(s))

\* mutant: the keys stay in the file's order
KeysInFileOrder(terms) == terms

\* sorted(keys, key=len, reverse=True): stable, longest first
RECURSIVE SortLongestFirst(_)
SortLongestFirst(terms) ==
    IF terms = <<>> THEN <<>>
    ELSE LET i == CHOOSE i \in 1..Len(terms) :
                      /\ \A j \in 1..Len(terms) : Len(terms[j]) <= Len(terms[i])
                      /\ \A j \in 1..(i - 1) : Len(terms[j]) < Len(terms[i])
         IN  <<terms[i]>> \o SortLongestFirst(RemoveAt(terms, i))

\* _create_pattern: \b(term|term|...)\b with re.IGNORECASE
CreatePattern(terms) == [alternatives |-> terms, flags |-> "IGNORECASE"]

\* TextNormalizer.__init__
NewNormalizer(file, remove_fillers) ==
    LET glossary == LoadGlossary(file).entries
    IN  [glossary |-> glossary,
         remove_fillers |-> remove_fillers,
         glossary_pattern |-> CreatePattern(SortLongestFirst(Keys(glossary))),
         filler_pattern |-> IF remove_fillers THEN CreatePattern(FILLER_WORDS)
                            ELSE NoPattern]

\* \b at offset p of t: exactly one of the characters around p is a \w
Boundary(t, p) ==
    (p > 0 /\ IsWordChar(t[p])) # (p < Len(t) /\ IsWordChar(t[p + 1]))

\* the escaped term matches t at offset p, ignoring case
TermAt(t, term, p) ==
    /\ p + Len(term) <= Len(t)
    /\ \A i \in 1..Len(term) : Lower(t[p + i]) = Lower(term[i])

\* the alternative the pattern matches with at offset p: the first one in the
\* pattern's order that matches between two \b; 0 when none does
MatchAt(t, pattern, p) ==
    LET hits == IF ~Boundary(t, p) THEN {}
                ELSE {k \in 1..Len(pattern.alternatives) :
                         /\ TermAt(t, pattern.alternatives[k], p)
                         /\ Boundary(t, p + Len(pattern.alternatives[k]))}
    IN  IF hits = {} THEN 0 ELSE CHOOSE k \in hits : \A j \in hits : k <= j

\* the matches pattern.sub replaces: leftmost first, not overlapping
RECURSIVE FindAll(_, _, _)
FindAll(t, pattern, p) ==
    IF p >= Len(t) THEN <<>>
    ELSE LET k == MatchAt(t, pattern, p)
         IN  IF k = 0 THEN FindAll(t, pattern, p + 1)
             ELSE LET end == p + Len(pattern.alternatives[k])
                  IN  <<[start |-> p, end |-> end, term |-> k]>>
                          \o FindAll(t, pattern, end)

\* pattern.sub: t with match i replaced by repls[i]; the text from the end of
\* match i-1 on
RECURSIVE Splice(_, _, _, _)
Splice(t, matches, repls, i) ==
    LET from == IF i = 1 THEN 0 ELSE matches[i - 1].end
    IN  IF i > Len(matches) THEN Slice(t, from, Len(t))
        ELSE Slice(t, from, matches[i].start) \o repls[i]
                 \o Splice(t, matches, repls, i + 1)

\* replace_func: the value of the first key that equals the matched text in
\* lower case
ReplaceFunc(glossary, matched_text) ==
    LET hits == {k \in 1..Len(glossary) :
                    LowerStr(glossary[k].key) = LowerStr(matched_text)}
    IN  IF hits = {} THEN matched_text
        ELSE glossary[CHOOSE k \in hits : \A j \in hits : k <= j].value

\* _apply_glossary
ApplyGlossary(nz, text) ==
    LET matches == FindAll(text, nz.glossary_pattern, 0)
        repls == [i \in 1..Len(matches) |->
                    ReplaceFunc(nz.glossary,
                                Slice(text, matches[i].start, matches[i].end))]
    IN  [text |-> Splice(text, matches, repls, 1), matches |-> matches]

\* _remove_fillers
RemoveFillers(nz, text) ==
    LET matches == FindAll(text, nz.filler_pattern, 0)
        repls == [i \in 1..Len(matches) |-> <<>>]
    IN  [text |-> Splice(text, matches, repls, 1), matches |-> matches]

\* mutant: text.replace("  ", " "), one pass over pairs of spaces
RECURSIVE ReplaceDoubleSpaces(_)
ReplaceDoubleSpaces(t) ==
    IF Len(t) < 2 THEN t
    ELSE IF IsSpace(t[1]) /\ IsSpace(t[2])
         THEN <<" ">> \o ReplaceDoubleSpaces(SubSeq(t, 3, Len(t)))
         ELSE <<t[1]>> \o ReplaceDoubleSpaces(Tail(t))

\* re.sub(r'\s+', ' ', text)
RECURSIVE CollapseWhitespace(_)
CollapseWhitespace(t) ==
    IF t = <<>> THEN <<>>
    ELSE IF IsSpace(t[1])
         THEN <<" ">> \o CollapseWhitespace(
                  SubSeq(t, LeadingSpaces(t) + 1, Len(t)))
         ELSE <<t[1]>> \o CollapseWhitespace(Tail(t))

\* normalize: the returned text and the locals on the way to it
Normalize(nz, text) ==
    IF text = <<>>
    THEN [glossed |-> text, glossary_matches |-> <<>>,
          filler_matches |-> <<>>, result |-> text]
    ELSE LET g == IF nz.glossary # <<>> THEN ApplyGlossary(nz, text)
                  ELSE [text |-> text, matches |-> <<>>]
             f == IF nz.remove_fillers /\ nz.filler_pattern # NoPattern
                  THEN RemoveFillers(nz, g.text)
                  ELSE [text |-> g.text, matches |-> <<>>]
         IN  [glossed |-> g.text, glossary_matches |-> g.matches,
              filler_matches |-> f.matches,
              result |-> Strip(CollapseWhitespace(f.text))]

\* TextNormalizer(glossary_path, remove_fillers)
ConstructNormalizer(file, remove_fillers) ==
    /\ norm.pc = "new"
    /\ glossary_file' = file
    /\ IF LoadGlossary(file).dict
       THEN /\ normalizer' = NewNormalizer(file, remove_fillers)
            /\ norm' = [norm EXCEPT !.pc = "ready"]
       ELSE \* line 34: the value has no keys(), AttributeError
            /\ norm' = [norm EXCEPT !.pc = "failed"]
            /\ UNCHANGED normalizer
    /\ UNCHANGED <<pc, config, error, chunker, segments, source_file,
                   full_text, char_to_segment, start_char, chunk_id, chunks,
                   windows, calls, stamp, run>>

\* normalizer.normalize(text)
NormalizeText(text) ==
    /\ norm.pc = "ready"
    /\ LET n == Normalize(normalizer, text)
       IN  norm' = [pc |-> "once", text |-> text, glossed |-> n.glossed,
                    glossary_matches |-> n.glossary_matches,
                    filler_matches |-> n.filler_matches,
                    result |-> n.result, again |-> <<>>]
    /\ UNCHANGED <<pc, config, error, chunker, segments, source_file,
                   full_text, char_to_segment, start_char, chunk_id, chunks,
                   windows, calls, normalizer, glossary_file, stamp, run>>

\* normalizer.normalize(normalized): the returned text is normalized again
NormalizeAgain ==
    /\ norm.pc = "once"
    /\ norm' = [norm EXCEPT !.pc = "twice",
                            !.again = Normalize(normalizer, norm.result).result]
    /\ UNCHANGED <<pc, config, error, chunker, segments, source_file,
                   full_text, char_to_segment, start_char, chunk_id, chunks,
                   windows, calls, normalizer, glossary_file, stamp, run>>

NormNext ==
    \/ /\ norm.pc = "new"
       /\ \E file \in GlossaryFiles, rf \in BOOLEAN :
              ConstructNormalizer(file, rf)
    \/ /\ norm.pc = "ready"
       /\ \E text \in NormTexts : NormalizeText(text)
    \/ NormalizeAgain

NormSpec == Init /\ [][NormNext]_vars

\* ----------------------------------------------------------- export.py
\* format_timestamp_srt, format_timestamp_vtt. The argument is a Python
\* float, an IEEE 754 binary64; the float of a time below 2^31 seconds is
\* kept exactly, as its whole part and the bits of its fraction.

\* the significant bits of a binary64
SignificandBits == 53

\* the hours of the times formatted
MaxHours == 1

Minutes == {0, 59}
Seconds == {0, 1, 59}
Millis == {0, 1, 2, 5, 250, 456, 500, 999}

\* the times, in whole milliseconds
Times ==
    {h * 3600000 + m * 60000 + sec * 1000 + ms :
        h \in 0..MaxHours, m \in Minutes, sec \in Seconds, ms \in Millis}

RECURSIVE BitLength(_)
BitLength(n) == IF n = 0 THEN 0 ELSE 1 + BitLength(n \div 2)

\* the bits long division brings down in one step, of the n still to come
Block(n) == IF n < 16 THEN n ELSE 16

\* q < 2^w as w bits, the highest first
BitsOf(q, w) == [k \in 1..w |-> (q \div 2^(w - k)) % 2]

\* the whole number a sequence of bits spells, the highest first
RECURSIVE BitsValue(_)
BitsValue(bits) ==
    IF Len(bits) = 0 THEN 0
    ELSE IF Len(bits) = 1 THEN bits[1]
    ELSE LET half == Len(bits) \div 2
         IN  BitsValue(SubSeq(bits, 1, half)) * 2^(Len(bits) - half)
                 + BitsValue(SubSeq(bits, half + 1, Len(bits)))

\* the first n bits of the binary expansion of r / 1000, for 0 <= r < 1000,
\* and the remainder the rest of the expansion starts from: long division,
\* a block of bits at a step
RECURSIVE FracBitsFrom(_, _, _)
FracBitsFrom(r, n, done) ==
    IF n = 0 THEN [bits |-> done, rem |-> r]
    ELSE FracBitsFrom((r * 2^Block(n)) % 1000, n - Block(n),
                      done \o BitsOf((r * 2^Block(n)) \div 1000, Block(n)))

FracBits(r, n) == FracBitsFrom(r, n, <<>>)

\* the zero bits a fraction starts with
LeadingZeros(bits) ==
    LET ones == {i \in 1..Len(bits) : bits[i] = 1}
    IN  IF ones = {} THEN Len(bits)
        ELSE (CHOOSE i \in ones : \A j \in ones : i <= j) - 1

\* one unit in the last place more; carry is 1 when the fraction wrapped
Increment(bits) ==
    LET zeros == {i \in 1..Len(bits) : bits[i] = 0}
        last == IF zeros = {} THEN 0
                ELSE CHOOSE i \in zeros : \A j \in zeros : j <= i
    IN  [bits |-> [k \in 1..Len(bits) |->
                     IF k < last THEN bits[k] ELSE IF k = last THEN 1 ELSE 0],
         carry |-> IF last = 0 THEN 1 ELSE 0]

\* the fraction bits a binary64 with this whole part and this fraction has
\* room for
FractionWidth(whole, bits) ==
    IF whole > 0 THEN SignificandBits - BitLength(whole)
    ELSE SignificandBits + LeadingZeros(bits)

\* round to nearest, ties to even: whole.bits cut to width fraction bits,
\* where more says that the value goes on beyond bits with something non-zero
RoundToFloat(whole, bits, more) ==
    LET width == FractionWidth(whole, bits)
    IN  IF width >= Len(bits) /\ ~more
        THEN [whole |-> whole, frac |-> bits]
        ELSE LET kept == SubSeq(bits, 1, width)
                 cut == SubSeq(bits, width + 1, Len(bits))
                 tail == more \/ \E i \in 2..Len(cut) : cut[i] = 1
                 odd == IF kept = <<>> THEN whole % 2 = 1
                        ELSE kept[Len(kept)] = 1
                 up == cut # <<>> /\ cut[1] = 1 /\ (tail \/ odd)
                 inc == Increment(kept)
             IN  IF up THEN [whole |-> whole + inc.carry, frac |-> inc.bits]
                 ELSE [whole |-> whole, frac |-> kept]

\* the float nearest to t / 1000: the argument for a time of t milliseconds
SecondsOf(t) ==
    LET whole == t \div 1000
        r == t % 1000
        lead == LeadingZeros(FracBits(r, 12).bits)
        width == IF r = 0 THEN 0
                 ELSE IF whole > 0 THEN SignificandBits - BitLength(whole)
                 ELSE SignificandBits + lead
        exact == FracBits(r, width + 1)
    IN  RoundToFloat(whole, exact.bits, exact.rem # 0)

\* x % n for a whole n: exact
FloatMod(x, n) == [whole |-> x.whole % n, frac |-> x.frac]

\* int(x // n) for a whole n
FloorDiv(x, n) == x.whole \div n

\* bits * 1000 as a whole number and a fraction of the same width, from the
\* last bit up, a block of bits at a step
RECURSIVE TimesThousandFrom(_, _, _, _)
TimesThousandFrom(bits, n, carry, done) ==
    IF n = 0 THEN [whole |-> carry, frac |-> done]
    ELSE LET w == Block(n)
             product == BitsValue(SubSeq(bits, n - w + 1, n)) * 1000 + carry
         IN  TimesThousandFrom(bits, n - w, product \div 2^w,
                               BitsOf(product % 2^w, w) \o done)

TimesThousand(bits) == TimesThousandFrom(bits, Len(bits), 0, <<>>)

\* x * 1000 for a float x below 1: the exact product, rounded to a float
FloatTimes1000(x) ==
    LET exact == TimesThousand(x.frac)
    IN  RoundToFloat(exact.whole, exact.frac, FALSE)

\* int(x)
IntOf(x) == x.whole

Digits == <<"0", "1", "2", "3", "4", "5", "6", "7", "8", "9">>

\* f"{n:0<width>d}"
RECURSIVE ZeroPadded(_, _)
ZeroPadded(n, width) ==
    IF n < 10 /\ width <= 1 THEN <<Digits[n + 1]>>
    ELSE ZeroPadded(n \div 10, width - 1) \o <<Digits[(n % 10) + 1]>>

\* lines 22-27 and 40-45, with the separator of the format
FormatTimestamp(seconds, separator) ==
    LET hours == FloorDiv(seconds, 3600)
        minutes == FloorDiv(FloatMod(seconds, 3600), 60)
        secs == IntOf(FloatMod(seconds, 60))
        millis == IntOf(FloatTimes1000(FloatMod(seconds, 1)))
    IN  ZeroPadded(hours, 2) \o <<":">> \o ZeroPadded(minutes, 2) \o <<":">>
            \o ZeroPadded(secs, 2) \o <<separator>> \o ZeroPadded(millis, 3)

format_timestamp_srt(seconds) == FormatTimestamp(seconds, ",")
format_timestamp_vtt(seconds) == FormatTimestamp(seconds, ".")

\* format_timestamp_srt(t / 1000)
FormatSrt(t) ==
    /\ stamp.pc = "idle"
    /\ stamp' = [pc |-> "srt", millis |-> t,
                 srt |-> format_timestamp_srt(SecondsOf(t)), vtt |-> <<>>]
    /\ UNCHANGED <<pc, config, error, chunker, segments, source_file,
                   full_text, char_to_segment, start_char, chunk_id, chunks,
                   windows, calls, normvars, run>>

\* format_timestamp_vtt of the same time
FormatVtt ==
    /\ stamp.pc = "srt"
    /\ stamp' = [stamp EXCEPT !.pc = "both",
                     !.vtt = format_timestamp_vtt(SecondsOf(stamp.millis))]
    /\ UNCHANGED <<pc, config, error, chunker, segments, source_file,
                   full_text, char_to_segment, start_char, chunk_id, chunks,
                   windows, calls, normvars, run>>

ExportNext ==
    \/ /\ stamp.pc = "idle"
       /\ \E t \in Times : FormatSrt(t)
    \/ FormatVtt

ExportSpec == Init /\ [][ExportNext]_vars

\* -------------------------------------------------------------- cli.py
\* the batch command. A file is what transcribing it does: it goes through,
\* validate_media_file rejects it, or a step of transcribe raises.

\* the files input_path.glob finds
MaxFiles == 3

FileKinds == {"ok", "invalid", "raises"}

FileLists == UNION {[1..n -> FileKinds] : n \in 0..MaxFiles}

\* what leaves the try block of transcribe, lines 93-189: sys.exit(1) of
\* line 98 raises SystemExit
RaisedInTry(file) ==
    CASE file = "invalid" -> "SystemExit"
      [] file = "raises" -> "Exception"
      [] OTHER -> "none"

\* except Exception: SystemExit is not an Exception
ExceptException(raised) == raised = "Exception"

\* mutant: the handler of transcribe reports the error and returns
TranscribeReportsOnly(file) ==
    LET raised == RaisedInTry(file)
    IN  IF raised = "none"
        THEN [raised |-> "none", console |-> <<"Transcription complete!">>]
        ELSE IF ExceptException(raised)
        THEN [raised |-> "none", console |-> <<"Error">>]
        ELSE [raised |-> raised, console |-> <<"Error: Invalid input file">>]

\* transcribe, lines 93-194: what it prints last and what it raises; its
\* handler ends in sys.exit(1)
Transcribe(file) ==
    LET raised == RaisedInTry(file)
    IN  IF raised = "none"
        THEN [raised |-> "none", console |-> <<"Transcription complete!">>]
        ELSE IF ExceptException(raised)
        THEN [raised |-> "SystemExit", console |-> <<"Error">>]
        ELSE [raised |-> raised, console |-> <<"Error: Invalid input file">>]

\* batch, lines 222-232: up to the loop
Batch(files) ==
    /\ run.pc = "idle"
    /\ IF files = <<>>
       THEN run' = [run EXCEPT !.pc = "returned", !.files = files,
                        !.console = <<"No files">>]
       ELSE run' = [run EXCEPT !.pc = "for", !.files = files,
                        !.console = <<"Batch Mode">>]
    /\ UNCHANGED <<pc, config, error, chunker, segments, source_file,
                   full_text, char_to_segment, start_char, chunk_id, chunks,
                   windows, calls, normvars, stamp>>

\* batch, lines 234-235 and 252-253: the next file is announced, or the loop
\* is over and the command returns
BatchFor ==
    /\ run.pc = "for"
    /\ IF run.i > Len(run.files)
       THEN run' = [run EXCEPT !.pc = "returned",
                        !.console = Append(@, "Batch processing complete!")]
       ELSE run' = [run EXCEPT !.pc = "invoke",
                        !.console = Append(@, "Processing")]
    /\ UNCHANGED <<pc, config, error, chunker, segments, source_file,
                   full_text, char_to_segment, start_char, chunk_id, chunks,
                   windows, calls, normvars, stamp>>

\* batch, lines 237-259: ctx.invoke(transcribe, ...) for file i
BatchInvoke ==
    /\ run.pc = "invoke"
    /\ LET t == Transcribe(run.files[run.i])
           printed == run.console \o t.console
           started == Append(run.started, run.i)
       IN  IF t.raised = "none"
           THEN run' = [run EXCEPT !.pc = "for", !.i = @ + 1,
                            !.started = started, !.console = printed]
           ELSE IF ExceptException(t.raised)
           THEN \* lines 255-258
                run' = [run EXCEPT !.pc = "exited", !.started = started,
                            !.console = Append(printed, "Error"),
                            !.exit_status = 1]
           ELSE \* SystemExit(1) leaves batch and ends the process
                run' = [run EXCEPT !.pc = "exited", !.started = started,
                            !.console = printed, !.exit_status = 1]
    /\ UNCHANGED <<pc, config, error, chunker, segments, source_file,
                   full_text, char_to_segment, start_char, chunk_id, chunks,
                   windows, calls, normvars, stamp>>

CliNext ==
    \/ /\ run.pc = "idle"
       /\ \E files \in FileLists : Batch(files)
    \/ BatchFor
    \/ BatchInvoke

CliSpec == Init /\ [][CliNext]_vars

\* ---------------------------------------------------------------- claims
Called == pc \in {"while", "done"}
Returned == pc = "done"

\* C1: a configuration with overlap_chars >= target_chars is rejected by the
\* constructor with the error it raises (ValueError), and leaves no chunker,
\* no chunk_segments call and no chunk behind.
C1_RejectedAtConstruction ==
    (pc # "new" /\ config.overlap_chars >= config.target_chars)
        => /\ pc = "rejected"
           /\ error = "ValueError"
           /\ chunker = NoChunker
           /\ chunks = <<>>
           /\ windows = <<>>
           /\ full_text = <<>>

C1_Witness ==
    /\ pc = "rejected"
    /\ config.overlap_chars = config.target_chars

\* C2 as stated: every call on a non-empty segment list returns at least one
\* chunk.
C2_Original ==
    (Returned /\ segments # <<>>) => Len(chunks) >= 1

\* C2 amended: every call on a non-empty segment list returns without
\* raising: the loop can always take its next step, each step either
\* returns or strictly advances start_char, and start_char never passes the
\* end of the text, so the loop takes at most Len(full_text) + 1 steps.  The
\* call returns at least one chunk when the stripped concatenated text is
\* non-empty, and no chunk when every segment's text is empty or
\* whitespace-only.
C2_TotalAndNonEmpty ==
    /\ [](pc = "while" => (ENABLED WhileStep /\ start_char <= Len(full_text)))
    /\ [][pc = "while" => (pc' = "done" \/ start_char' > start_char)]_vars
    /\ [](Called => error = "none")
    /\ []((Returned /\ segments # <<>> /\ FullText(segments) # <<>>)
            => Len(chunks) >= 1)
    /\ []((Returned /\ segments # <<>> /\ FullText(segments) = <<>>)
            => chunks = <<>>)

C2_Witness ==
    /\ Returned
    /\ Len(segments) >= 2
    /\ \E k \in 1..Len(segments) : Strip(segments[k].text) = <<>>
    /\ Len(chunks) >= 2

\* C3: chunk_segments on an empty segment list returns the empty chunk list
\* and raises nothing, whatever the accepted configuration.
C3_EmptyInEmptyOut ==
    (pc \in {"while", "done", "rejected"} /\ chunker # NoChunker
        /\ segments = <<>>)
        => (pc = "done" /\ chunks = <<>> /\ error = "none")

C3_Witness ==
    /\ Returned
    /\ segments = <<>>
    /\ chunker.overlap_chars >= 1

\* offsets of the stripped concatenated text
Offsets == 0..(Len(full_text) - 1)

\* offset i lies in the window of some returned chunk
Covered(i) ==
    \E k \in 1..Len(windows) :
        windows[k].start_char <= i /\ i < windows[k].end_char

\* C4 as stated: when chunk_segments has returned, every offset of the
\* stripped concatenated text lies in the window of a returned chunk.
C4_Original ==
    Returned => \A i \in Offsets : Covered(i)

\* the segment chunk_segments looks up for offset i of the stripped text
LookedUp(i) == char_to_segment[i + 1]

\* the segment whose text-plus-space produced character i of the stripped
\* text: the strip removed the leading whitespace of the joined text
Producer(i) ==
    CharToSegment(segments)[i + LeadingSpaces(JoinText(segments)) + 1]

\* C5 as stated: for every offset of the stripped text the segment looked up
\* is the segment that produced the character, and every id in a chunk's
\* segment_ids is the id of a segment that produced a character of the
\* chunk's window.
C5_Original ==
    (Called /\ segments # <<>>)
        => /\ \A i \in Offsets : LookedUp(i) = Producer(i)
           /\ \A k \in 1..Len(chunks) :
                 \A j \in 1..Len(chunks[k].segment_ids) :
                    \E i \in windows[k].start_char..(windows[k].end_char - 1) :
                        Producer(i).id = chunks[k].segment_ids[j]

SegmentSet == {segments[k] : k \in 1..Len(segments)}

\* C6: every chunk's start is the start of the input segment whose id is
\* segment_ids[0], and its end is the end of the input segment whose id is
\* segment_ids[-1].
C6_TimestampsOfEndSegments ==
    \A k \in 1..Len(chunks) :
        LET c == chunks[k]
            first_id == c.segment_ids[1]
            last_id == c.segment_ids[Len(c.segment_ids)]
        IN  /\ \E s \in SegmentSet : s.id = first_id
            /\ \E s \in SegmentSet : s.id = last_id
            /\ \A s \in SegmentSet : s.id = first_id => c.start = s.start
            /\ \A s \in SegmentSet : s.id = last_id => c.end = s.end

C6_Witness ==
    /\ Returned
    /\ Len(segments) >= 2
    /\ segments[1].id # 0
    /\ \E k \in 1..Len(chunks) :
          /\ Len(chunks[k].segment_ids) >= 2
          /\ chunks[k].end > chunks[k].start

\* C7: every chunk's segment_ids is non-empty, strictly ascending and made
\* of ids of input segments, whatever the order of the input list.
C7_SegmentIdsAscending ==
    \A k \in 1..Len(chunks) :
        LET ids == chunks[k].segment_ids
        IN  /\ Len(ids) >= 1
            /\ \A a, b \in 1..Len(ids) : a < b => ids[a] < ids[b]
            /\ \A a \in 1..Len(ids) : \E s \in SegmentSet : s.id = ids[a]

C7_Witness ==
    /\ Returned
    /\ Len(segments) >= 3
    /\ segments[1].id > segments[2].id
    /\ \E k \in 1..Len(chunks) : Len(chunks[k].segment_ids) >= 3

\* the input as the engine delivers it: ids strictly ascending, start and end
\* non-decreasing, end >= start
Ordered(segs) ==
    /\ \A k \in 1..Len(segs) : segs[k].end >= segs[k].start
    /\ \A k \in 1..(Len(segs) - 1) :
          /\ segs[k].id < segs[k + 1].id
          /\ segs[k].start <= segs[k + 1].start
          /\ segs[k].end <= segs[k + 1].end

TimeOverlap ==
    \A k \in 1..(Len(chunks) - 1) : chunks[k + 1].start <= chunks[k].end

\* C8 as stated: for every accepted configuration and every ordered input,
\* each chunk starts no later than the previous chunk ends.
C8_Original ==
    Ordered(segments) => TimeOverlap

\* C8 amended: the same, for configurations with overlap_chars >= 1.
C8_TimeOverlapWithOverlap ==
    (Ordered(segments) /\ chunker.overlap_chars >= 1) => TimeOverlap

C8_Witness ==
    /\ Returned
    /\ Ordered(segments)
    /\ chunker.overlap_chars >= 1
    /\ Len(chunks) >= 2
    /\ \E k \in 1..(Len(segments) - 1) :
          segments[k + 1].start > segments[k].end
    /\ chunks[2].start > chunks[1].start

\* number of offsets two windows have in common
Shared(v, w) ==
    LET lo == IF v.start_char >= w.start_char
              THEN v.start_char ELSE w.start_char
        hi == Min(v.end_char, w.end_char)
    IN  IF hi > lo THEN hi - lo ELSE 0

\* C9: the k-th returned chunk's window (k from 0) starts at offset
\* k * (target_chars - overlap_chars), and every two consecutive windows,
\* the last pair included, share exactly overlap_chars offsets.
C9_FixedStride ==
    \A k \in 1..Len(windows) :
        /\ windows[k].start_char =
              (k - 1) * (chunker.target_chars - chunker.overlap_chars)
        /\ k < Len(windows) =>
              Shared(windows[k], windows[k + 1]) = chunker.overlap_chars

C9_Witness ==
    /\ Returned
    /\ chunker.overlap_chars >= 1
    /\ Len(windows) >= 2
    /\ LET w == windows[Len(windows)]
       IN  w.end_char - w.start_char < chunker.target_chars

\* C10: every chunk's char_count is the length of its text, and the text is
\* non-empty with no whitespace at either end.
C10_CharCountAndTrim ==
    \A k \in 1..Len(chunks) :
        LET c == chunks[k]
        IN  /\ c.char_count = Len(c.text)
            /\ c.text # <<>>
            /\ ~IsSpace(c.text[1])
            /\ ~IsSpace(c.text[Len(c.text)])

C10_Witness ==
    /\ Returned
    /\ \E k \in 1..Len(chunks) :
          /\ chunks[k].char_count >= 2
          /\ chunks[k].char_count
                < windows[k].end_char - windows[k].start_char

\* C11: when the stripped concatenated text is non-empty and at most
\* target_chars long, exactly one chunk is returned and its text is the whole
\* stripped text.
C11_ShortTextOneChunk ==
    (Returned /\ segments # <<>> /\ FullText(segments) # <<>>
        /\ Len(FullText(segments)) <= chunker.target_chars)
        => (Len(chunks) = 1 /\ chunks[1].text = FullText(segments))

C11_Witness ==
    /\ Returned
    /\ Len(segments) >= 2
    /\ Len(FullText(segments)) = chunker.target_chars
    /\ Len(JoinText(segments)) > Len(FullText(segments)) + 1
    /\ Len(chunks) = 1

\* C12: the chunk at position k of the list (k from 0) has chunk_id k, at
\* every moment of the loop and in the returned list.
C12_ChunkIdsSequential ==
    /\ \A k \in 1..Len(chunks) : chunks[k].chunk_id = k - 1
    /\ Called => chunk_id = Len(chunks)

C12_Witness ==
    /\ Returned
    /\ Len(chunks) >= 3

\* the input carries ids 0..n-1 in input order
IdsInInputOrder(segs) == \A k \in 1..Len(segs) : segs[k].id = k - 1

\* C13: when the input carries ids 0..n-1 in input order, every chunk's
\* segment_ids is a run of consecutive integers.
C13_SegmentIdsNoGap ==
    IdsInInputOrder(segments)
        => \A k \in 1..Len(chunks) :
              \A j \in 1..(Len(chunks[k].segment_ids) - 1) :
                 chunks[k].segment_ids[j + 1] = chunks[k].segment_ids[j] + 1

C13_Witness ==
    /\ Returned
    /\ Len(segments) = 3
    /\ IdsInInputOrder(segments)
    /\ segments[1].text # <<>>
    /\ segments[2].text = <<>>
    /\ \E k \in 1..Len(chunks) : chunks[k].segment_ids = <<0, 1, 2>>

\* C15: every chunk carries the source_file the caller passed, None included.
C15_SourceFileCarried ==
    \A k \in 1..Len(chunks) : chunks[k].source_file = source_file

C15_Witness ==
    /\ Returned
    /\ source_file = "test.mp4"
    /\ Len(chunks) >= 2

\* chunk_segments(segs, source_file) on chunker ck, run alone to its return
RECURSIVE RunFrame(_, _)
RunFrame(fr, ck) ==
    IF fr.pc = "done" THEN fr.chunks ELSE RunFrame(StepFrame(fr, ck), ck)

RunAlone(segs, sf, ck) == RunFrame(EnterFrame(segs, sf), ck)

\* C14: a chunk_segments call never writes the chunker's fields nor the
\* segments it was given, and every call interleaved with another on the same
\* chunker returns the chunks it returns when run alone; two calls with the
\* same input return the same chunks.
C14_StatelessUnderInterleaving ==
    /\ [][pc = "ready" =>
            /\ chunker' = chunker
            /\ \A f \in Frames :
                  calls[f].pc # "idle" =>
                     calls'[f].segments = calls[f].segments]_vars
    /\ [](\A f \in Frames :
            calls[f].pc = "done" =>
               calls[f].chunks =
                  RunAlone(calls[f].segments, calls[f].source_file, chunker))
    /\ []((calls[1].pc = "done" /\ calls[2].pc = "done"
              /\ calls[1].segments = calls[2].segments)
            => calls[1].chunks = calls[2].chunks)

C14_Witness ==
    /\ calls[1].pc = "while"
    /\ calls[1].start_char > 0
    /\ calls[2].pc = "done"
    /\ Len(calls[2].chunks) >= 2
    /\ calls[1].segments # calls[2].segments

\* ------------------------------------------------- claims: normalize.py
Normalized == norm.pc \in {"once", "twice"}

\* term stands in t at offset p as a whole word or phrase: the same characters
\* up to case, with no word character next to it on either side
WholeWordAt(t, term, p) ==
    /\ TermAt(t, term, p)
    /\ p = 0 \/ ~IsWordChar(t[p])
    /\ p + Len(term) = Len(t) \/ ~IsWordChar(t[p + Len(term) + 1])

\* the glossary's value for a key
ValueOf(glossary, key) ==
    glossary[CHOOSE k \in 1..Len(glossary) : glossary[k].key = key].value

\* the key the i-th glossary match was found with
MatchedKey(i) ==
    normalizer.glossary_pattern.alternatives[norm.glossary_matches[i].term]

\* every match is replaced by the value of the key it was found with, and the
\* text between the matches is kept
ValuesSpliced ==
    norm.glossed =
        Splice(norm.text, norm.glossary_matches,
               [i \in 1..Len(norm.glossary_matches) |->
                   ValueOf(normalizer.glossary, MatchedKey(i))],
               1)

\* C16 as the spec states it: every whole-word or whole-phrase occurrence of a
\* glossary key in the text, in any casing, is replaced by the key's value as
\* stored, and nothing but whole-word occurrences of keys is replaced.
C16_Original ==
    Normalized =>
        LET text == norm.text
            ms == norm.glossary_matches
            glossary == normalizer.glossary
        IN  /\ \A k \in 1..Len(glossary) : \A p \in 0..Len(text) :
                   WholeWordAt(text, glossary[k].key, p) =>
                       \E i \in 1..Len(ms) :
                           /\ ms[i].start <= p
                           /\ p + Len(glossary[k].key) <= ms[i].end
            /\ \A i \in 1..Len(ms) :
                   WholeWordAt(text, MatchedKey(i), ms[i].start)
            /\ ValuesSpliced
            /\ ~normalizer.remove_fillers =>
                   norm.result = Strip(CollapseWhitespace(norm.glossed))

\* the pattern with key as its only alternative matches t at offset p
CouldMatchAt(t, key, p) ==
    /\ Boundary(t, p)
    /\ TermAt(t, key, p)
    /\ Boundary(t, p + Len(key))

\* C17: where several glossary keys could match at the same offset, the match
\* is made with the longest of them and replaced by that key's value, in
\* whatever order the glossary lists its keys.
C17_LongestKeyMatched ==
    Normalized =>
        LET text == norm.text
            ms == norm.glossary_matches
            glossary == normalizer.glossary
        IN  /\ \A i \in 1..Len(ms) : \A k \in 1..Len(glossary) :
                   CouldMatchAt(text, glossary[k].key, ms[i].start) =>
                       Len(glossary[k].key) <= ms[i].end - ms[i].start
            /\ ValuesSpliced

\* a shorter key comes first in the file, both keys could match at one offset,
\* and the match there was made
C17_Witness ==
    /\ Normalized
    /\ Len(normalizer.glossary) = 2
    /\ Len(normalizer.glossary[1].key) < Len(normalizer.glossary[2].key)
    /\ \E i \in 1..Len(norm.glossary_matches) :
           \A k \in 1..2 :
               CouldMatchAt(norm.text, normalizer.glossary[k].key,
                            norm.glossary_matches[i].start)

\* C18 as the spec states it: with filler removal on, the returned text has no
\* configured filler in it as a whole word or phrase.
C18_Original ==
    (Normalized /\ normalizer.remove_fillers) =>
        \A f \in 1..Len(FILLER_WORDS) : \A p \in 0..Len(norm.result) :
            ~WholeWordAt(norm.result, FILLER_WORDS[f], p)

\* some shorter configured filler stands inside filler f
ContainsShorterFiller(f) ==
    \E g \in 1..Len(FILLER_WORDS) :
        /\ Len(FILLER_WORDS[g]) < Len(FILLER_WORDS[f])
        /\ \E q \in 0..Len(FILLER_WORDS[f]) :
               TermAt(FILLER_WORDS[f], FILLER_WORDS[g], q)

\* C19 as the spec states it: a filler phrase with a shorter filler inside it
\* that stands in the text as a whole phrase is deleted as one match.
C19_Original ==
    (Normalized /\ normalizer.remove_fillers) =>
        \A f \in 1..Len(FILLER_WORDS) : \A p \in 0..Len(norm.glossed) :
            (ContainsShorterFiller(f) /\ WholeWordAt(norm.glossed, FILLER_WORDS[f], p))
                => \E i \in 1..Len(norm.filler_matches) :
                       /\ norm.filler_matches[i].start <= p
                       /\ p + Len(FILLER_WORDS[f]) <= norm.filler_matches[i].end

\* term is in t, in any casing
Contains(t, term) == \E p \in 0..Len(t) : TermAt(t, term, p)

\* t has no glossary key and no filler in it
Clean(t) ==
    /\ \A k \in 1..Len(normalizer.glossary) :
           ~Contains(t, normalizer.glossary[k].key)
    /\ \A f \in 1..Len(FILLER_WORDS) : ~Contains(t, FILLER_WORDS[f])

\* C20: when the text normalize returned has no glossary key and no filler in
\* it, normalizing it again returns it unchanged.
C20_IdempotentOnClean ==
    (norm.pc = "twice" /\ Clean(norm.result)) => norm.again = norm.result

\* a text that normalize changed into a non-empty clean text was normalized
\* again
C20_Witness ==
    /\ norm.pc = "twice"
    /\ Clean(norm.result)
    /\ norm.result # <<>>
    /\ norm.result # norm.text
    /\ norm.filler_matches # <<>>

\* ----------------------------------------------------- claims: export.py
DigitValue(c) == CHOOSE d \in 0..9 : Digits[d + 1] = c

RECURSIVE NumberOf(_)
NumberOf(chars) ==
    IF chars = <<>> THEN 0
    ELSE 10 * NumberOf(SubSeq(chars, 1, Len(chars) - 1))
             + DigitValue(chars[Len(chars)])

\* the fields of HH:MM:SS,mmm read back from the text
FieldsOf(text) ==
    LET n == Len(text)
    IN  [hh |-> NumberOf(SubSeq(text, 1, n - 10)),
         mm |-> NumberOf(SubSeq(text, n - 8, n - 7)),
         ss |-> NumberOf(SubSeq(text, n - 5, n - 4)),
         separator |-> text[n - 3],
         mmm |-> NumberOf(SubSeq(text, n - 2, n))]

\* C23 as the spec states it: for a time of T whole milliseconds the text is
\* HH:MM:SS,mmm with two, two, two and three digits, MM and SS at most 59,
\* the fields add up to T, and the VTT text is the same with "." before mmm.
C23_Original ==
    stamp.pc # "idle" =>
        LET f == FieldsOf(stamp.srt)
        IN  /\ Len(stamp.srt) = 12
            /\ stamp.srt[3] = ":" /\ stamp.srt[6] = ":"
            /\ f.separator = ","
            /\ f.mm <= 59 /\ f.ss <= 59 /\ f.mmm <= 999
            /\ f.hh * 3600000 + f.mm * 60000 + f.ss * 1000 + f.mmm
                   = stamp.millis
            /\ stamp.pc = "both" =>
                   stamp.vtt = [stamp.srt EXCEPT ![9] = "."]

\* text is whitespace from end to end (the empty text included)
Blank(t) == \A i \in 1..Len(t) : IsSpace(t[i])

\* C21: the returned text has no whitespace at either end and no two
\* whitespace characters in a row, and for an empty or whitespace-only text
\* normalize returns the empty text.
C21_WhitespaceNormalForm ==
    Normalized =>
        LET r == norm.result
        IN  /\ r # <<>> => (~IsSpace(r[1]) /\ ~IsSpace(r[Len(r)]))
            /\ \A i \in 1..(Len(r) - 1) : ~(IsSpace(r[i]) /\ IsSpace(r[i + 1]))
            /\ Blank(norm.text) => r = <<>>

\* a text with whitespace at both ends and a run of it was normalized to a
\* non-empty text
C21_Witness ==
    /\ Normalized
    /\ norm.text # <<>>
    /\ IsSpace(norm.text[1])
    /\ IsSpace(norm.text[Len(norm.text)])
    /\ \E i \in 1..(Len(norm.text) - 1) :
           IsSpace(norm.text[i]) /\ IsSpace(norm.text[i + 1])
    /\ norm.result # <<>>

\* the glossary could not be loaded: no file, a file that cannot be read, or
\* a file that is not JSON
LoadFailed == glossary_file.kind \in {"missing", "unreadable", "unparseable"}

\* C22: when the glossary could not be loaded the constructor does not fail,
\* the normalizer has the empty glossary, and normalize replaces nothing.
C22_LoadFailureIsEmptyGlossary ==
    LoadFailed =>
        /\ norm.pc # "failed"
        /\ normalizer.glossary = <<>>
        /\ Normalized =>
               (norm.glossary_matches = <<>> /\ norm.glossed = norm.text)

\* a text one of the model's glossaries would change was normalized by a
\* normalizer whose glossary file is not JSON
C22_Witness ==
    /\ Normalized
    /\ glossary_file.kind = "unparseable"
    /\ \E g \in Glossaries : \E p \in 0..Len(norm.text) :
           g # <<>> /\ WholeWordAt(norm.text, g[1].key, p)

\* --------------------------------------------- claims: chunk.py, the loop
\* C24: no chunk has more characters than target_chars, at any moment of the
\* loop and in the returned list.
C24_CharCountWithinTarget ==
    Called => \A k \in 1..Len(chunks) :
                 chunks[k].char_count <= chunker.target_chars

\* a text longer than target_chars gave a full chunk and a trimmed one
C24_Witness ==
    /\ Returned
    /\ Len(full_text) > chunker.target_chars
    /\ \E k \in 1..Len(chunks) : chunks[k].char_count = chunker.target_chars
    /\ \E k \in 1..Len(chunks) :
           chunks[k].char_count < windows[k].end_char - windows[k].start_char

\* C25 as the spec states it: of the returned chunks exactly the last has a
\* window that ends at the full length, every window ends beyond the one
\* before it, and the last chunk is not empty.
C25_Original ==
    (Returned /\ chunks # <<>>) =>
        /\ \A k \in 1..Len(windows) :
               (windows[k].end_char = Len(full_text)) <=> (k = Len(windows))
        /\ \A k \in 2..Len(windows) :
               windows[k].end_char > windows[k - 1].end_char
        /\ chunks[Len(chunks)].text # <<>>

CeilDiv(a, b) == (a + b - 1) \div b

\* the number of windows from offset 0 to the first one that reaches the end
ExpectedChunks ==
    IF Len(full_text) <= chunker.target_chars THEN 1
    ELSE 1 + CeilDiv(Len(full_text) - chunker.target_chars, chunker.stride)

\* none of those windows is whitespace only
NoBlankWindow ==
    \A k \in 0..(ExpectedChunks - 1) :
        Strip(Slice(full_text, k * chunker.stride,
                    k * chunker.stride + chunker.target_chars)) # <<>>

\* C26: the stride is at least 1 and the offset has advanced by it once per
\* emitted window; a non-empty stripped text of length L with no
\* whitespace-only window returns 1 chunk when L <= target_chars and
\* 1 + ceil((L - target_chars) / stride) chunks otherwise.
C26_ChunkCount ==
    /\ (Called /\ segments # <<>>) =>
           /\ chunker.stride >= 1
           /\ start_char = Len(windows) * chunker.stride
    /\ (Returned /\ Len(full_text) > 0 /\ NoBlankWindow) =>
           Len(chunks) = ExpectedChunks

\* three chunks were returned where the division has a remainder
C26_Witness ==
    /\ Returned
    /\ Len(full_text) > chunker.target_chars
    /\ NoBlankWindow
    /\ (Len(full_text) - chunker.target_chars) % chunker.stride # 0
    /\ Len(chunks) >= 3

\* C27: for segments in ascending id order whose start and end do not
\* decrease, no chunk ends before it starts and the chunks' starts and ends
\* do not decrease along the list.
C27_MonotoneInTime ==
    Ordered(segments) =>
        \A k \in 1..Len(chunks) :
            /\ chunks[k].start <= chunks[k].end
            /\ k < Len(chunks) =>
                   /\ chunks[k].start <= chunks[k + 1].start
                   /\ chunks[k].end <= chunks[k + 1].end

\* two chunks of an ordered input, the second later at both ends
C27_Witness ==
    /\ Returned
    /\ Ordered(segments)
    /\ Len(chunks) >= 2
    /\ chunks[1].start < chunks[2].start
    /\ chunks[1].end < chunks[2].end
    /\ chunks[1].start < chunks[1].end

\* -------------------------------------------------------- claims: cli.py
\* C28: the files are taken one at a time in the order of the list, and when
\* transcribing a file fails the run ends with exit status 1, no later file
\* is started and the batch-complete message is not printed.
C28_BatchStopsAtFailure ==
    /\ \A j \in 1..Len(run.started) : run.started[j] = j
    /\ \A j \in 1..Len(run.started) :
           run.files[j] # "ok" =>
               /\ run.pc = "exited"
               /\ run.exit_status = 1
               /\ Len(run.started) = j
               /\ \A k \in 1..Len(run.console) :
                      run.console[k] # "Batch processing complete!"

\* the second of three files raised after the first went through
C28_Witness ==
    /\ run.pc = "exited"
    /\ Len(run.files) = 3
    /\ run.files[1] = "ok"
    /\ run.files[2] = "raises"
    /\ run.started = <<1, 2>>

====
